---- MODULE Spec2Model ----
(***************************************************************************)
(* Model of the fresher-jobs bot's dedup/delivery pipeline                 *)
(* (src/src/bot.py): the per-channel "seen" store, its persistence to      *)
(* data/seen.json, and the concurrent post_jobs runs that filter, deliver  *)
(* and commit against it.                                                  *)
(***************************************************************************)
EXTENDS Integers, Sequences, FiniteSets, TLC

\* ---------------------------------------------------------------- bounds
\* While triggers overlap (Spec): how many of Feed's postings the page ever
\* lists; a fetch then returns at most one of them.
ShortFeed == 2
\* With one trigger at a time (SpecSingle): the longest job list a fetch returns.
MaxJobs == 3

\* Channel ids (discord snowflakes) that receive posts.
Dest == {1, 2}
\* Apply links of the postings the sources may return.
Links == {"A", "B", "C"}
\* Job titles (Job.title).
Titles == {"t1", "t2"}

\* Slots for the post_jobs coroutines that may be in flight at once.
Runs == {1, 2}

\* ------------------------------------------------------------ job records
\* scraper.Job, reduced to the fields the pipeline reads for identity.
Job == [title : Titles, link : Links]

\* The postings a source page may list, in page order.  Two of them share
\* the link "A": the same posting listed twice under different titles.
Feed ==
    << [title |-> "t1", link |-> "A"], [title |-> "t1", link |-> "B"],
       [title |-> "t2", link |-> "A"], [title |-> "t1", link |-> "C"] >>

RECURSIVE Pick(_, _)
\* The sub-list of q at the positions in idx, in q's order.
Pick(q, idx) ==
    IF q = <<>> THEN <<>>
    ELSE LET rest == Pick(Tail(q), {i - 1 : i \in idx \ {1}})
         IN  IF 1 \in idx THEN <<Head(q)>> \o rest ELSE rest

\* What a fetch may hand to post_jobs: the page as it stands at some moment,
\* that is any sub-list of at most n of Feed's first k postings.
FetchResults(k, n) ==
    {Pick(Feed, idx) : idx \in {x \in SUBSET (1..k) : Cardinality(x) <= n}}

\* [j.link for j in jobs]
LinksOf(jobs) == [i \in 1..Len(jobs) |-> jobs[i].link]

SeqRange(q) == {q[i] : i \in 1..Len(q)}

\* The order lists of links are written in below.
LinkOrder == <<"A", "B", "C">>

\* list(a_set): a list holding each element once.  Python leaves the order
\* open and the program only ever reads such a list back through set(), so
\* the model writes it in LinkOrder.
InOrder(S) == LET Member(x) == x \in S IN SelectSeq(LinkOrder, Member)
ListOf(S) == InOrder(S)

\* ================================================================ scraper
\* ---------------------------------------------------------------- limit
\* The limit argument of an extractor: None or an int.
NoneLimit == [given |-> FALSE, n |-> 0]
IntLimit(n) == [given |-> TRUE, n |-> n]

\* `limit and len(jobs) >= limit`: the test that ends a scan (lines 127, 174,
\* 260, 356, 399).  Python reads None and 0 alike as "no cap".
Reached(limit, jobs) == limit.given /\ limit.n # 0 /\ Len(jobs) >= limit.n

\* What a call returns: a job list, or an exception raised to the caller.
\* fallback is history: whether the call ran its second strategy.
Returned(jobs, fallback) == [raised |-> FALSE, jobs |-> jobs, fallback |-> fallback]
RaisedError == [raised |-> TRUE, jobs |-> <<>>, fallback |-> FALSE]

\* A source as requests.get finds it: ok (a 2xx answer in time, doc being the
\* parsed page) or not (timeout, network error, or a status raise_for_status
\* rejects).
Up(doc) == [ok |-> TRUE, doc |-> doc]

\* ------------------------------------------------- fetch_jobs: the page
\* A table cell: th says whether it is a <th>, text is its normalized text
\* ("" when blank), href the stripped href of its first <a href> ("" when it
\* has none or a blank one).
Cell(th, text, href) == [th |-> th, text |-> text, href |-> href]

\* wanted (line 67), in the order the code lists the labels.
Wanted == <<"company", "job role", "qualification", "experience", "location", "apply">>

\* A row of header cells with the given label texts.
HeadRow(th, labels) == [i \in 1..Len(labels) |-> Cell(th, labels[i], "")]

RECURSIVE Flatten(_)
\* The cells of a list of rows, in document order.
Flatten(rows) == IF rows = <<>> THEN <<>> ELSE Head(rows) \o Flatten(Tail(rows))

TextsOf(cells) == [i \in 1..Len(cells) |-> cells[i].text]

\* A <table>: the cells that sit outside any <tr> (loose) and its rows.
\* table.find_all("th"): every <th> of the table, in document order.
ThCells(table) == LET IsTh(c) == c.th IN SelectSeq(table.loose \o Flatten(table.trs), IsTh)

\* Lines 59-64: the header texts find_target_table judges a table by: those
\* of its <th> cells, or without any those of the cells of its first row.
JudgedHeaders(table) ==
    IF ThCells(table) # <<>> THEN TextsOf(ThCells(table))
    ELSE IF table.trs # <<>> THEN TextsOf(Head(table.trs))
    ELSE <<>>

\* Line 68: how many of the wanted labels some header holds.  (A header text
\* here holds the one label it is spelled as.)
Hits(headers) ==
    Cardinality({i \in 1..Len(Wanted) : \E j \in 1..Len(headers) : headers[j] = Wanted[i]})

\* Lines 65-69: the table is accepted.
Qualifies(table) == JudgedHeaders(table) # <<>> /\ Hits(JudgedHeaders(table)) >= 4

\* Lines 57-71: find_target_table, as the position of the first accepted
\* table among soup.find_all("table"); 0 for None.
FindTargetTable(tables) ==
    IF \E i \in 1..Len(tables) : Qualifies(tables[i])
    THEN CHOOSE i \in 1..Len(tables) :
            Qualifies(tables[i]) /\ \A j \in 1..(i - 1) : ~Qualifies(tables[j])
    ELSE 0

\* Lines 78-82: idx[key], the first column of the header row whose text holds
\* key; 0 for None.
ColumnOf(headers, key) ==
    IF \E i \in 1..Len(headers) : headers[i] = key
    THEN CHOOSE i \in 1..Len(headers) :
            headers[i] = key /\ \A j \in 1..(i - 1) : headers[j] # key
    ELSE 0

\* Lines 90-94: get_cell_text; "" stands for None and for blank text alike
\* (the code only tests the value for truth).
GetCellText(headers, cells, key) ==
    LET j == ColumnOf(headers, key)
    IN  IF j # 0 /\ j <= Len(cells) THEN cells[j].text ELSE ""

\* Lines 95-101: get_cell_link.
GetCellLink(headers, cells, key) ==
    LET j == ColumnOf(headers, key)
    IN  IF j # 0 /\ j <= Len(cells) THEN cells[j].href ELSE ""

\* a or b, on strings.
OrElse(a, b) == IF a # "" THEN a ELSE b

\* Line 104: "role" and "job" are no keys of idx, so those lookups give None.
RowTitle(headers, cells) == GetCellText(headers, cells, "job role")

\* Lines 108-115: the apply cell's link, else the job role cell's, else (when
\* title or link lacks and there is no link) the last cell's.
RowLink(headers, cells) ==
    LET link == OrElse(GetCellLink(headers, cells, "apply"),
                       GetCellLink(headers, cells, "job role"))
    IN  IF link = "" /\ cells # <<>> THEN cells[Len(cells)].href ELSE link

\* `not (title and link)` (lines 116, 158): the row or item is skipped.
\* (Faulty variant: only the title is asked for.)
LacksTitleOnly(title, link) == title = ""
Lacks(title, link) == title = "" \/ link = ""

MkJob(title, link) == [title |-> title, link |-> link]

RECURSIVE WalkRows(_, _, _, _)
\* Lines 86-128: the loop over the data rows, jobs being the list so far.
WalkRows(headers, rows, jobs, limit) ==
    IF rows = <<>> THEN jobs
    ELSE LET cells == Head(rows)
             title == RowTitle(headers, cells)
             link == RowLink(headers, cells)
         IN  IF Len(cells) < 4 \/ Lacks(title, link)
             THEN WalkRows(headers, Tail(rows), jobs, limit)
             ELSE LET more == Append(jobs, MkJob(title, link))
                  IN  IF Reached(limit, more) THEN more
                      ELSE WalkRows(headers, Tail(rows), more, limit)

\* Lines 76-128: the records of the accepted table.  header_row is its first
\* <tr>; the data rows are the <tr>s after it.
TableJobs(table, limit) ==
    WalkRows(TextsOf(Head(table.trs)), Tail(table.trs), <<>>, limit)

\* "ab ".strip(): the href values here are "" (none), " " (blank) and links.
Strip(x) == IF x = " " THEN "" ELSE x

\* An <a>: its text and its href attribute as written.
Anchor(text, href) == [text |-> text, href |-> href]
NoAnchor == Anchor("", "")

\* An item of the fallback scan: a, its first <a href> (NoAnchor without one),
\* and h, its first "h2 a, h3 a" (NoAnchor without one).
Item(a, h) == [a |-> a, h |-> h]

\* found_items[:100] (line 147).
GenericCap == 100

Take(q, n) == SubSeq(q, 1, IF Len(q) < n THEN Len(q) ELSE n)

\* Lines 133-147: the items of the first pattern that finds any (listed),
\* else the first hundred the catch-all selector finds (generic).
FoundItems(doc) ==
    IF doc.listed # <<>> THEN doc.listed ELSE Take(doc.generic, GenericCap)

\* Lines 153-155: title or link lacks and the heading anchor has an href.
UseHeading(it) == (it.a.text = "" \/ Strip(it.a.href) = "") /\ it.h.href # ""

\* Lines 150-157: title and link of an item.
ItemTitle(it) == IF UseHeading(it) THEN OrElse(it.a.text, it.h.text) ELSE it.a.text
ItemLink(it) ==
    IF UseHeading(it) THEN OrElse(Strip(it.a.href), Strip(it.h.href)) ELSE Strip(it.a.href)

RECURSIVE WalkItems(_, _, _)
\* Lines 149-175: the loop over found_items.
WalkItems(items, jobs, limit) ==
    IF items = <<>> THEN jobs
    ELSE LET title == ItemTitle(Head(items))
             link == ItemLink(Head(items))
         IN  IF Lacks(title, link) THEN WalkItems(Tail(items), jobs, limit)
             ELSE LET more == Append(jobs, MkJob(title, link))
                  IN  IF Reached(limit, more) THEN more
                      ELSE WalkItems(Tail(items), more, limit)

\* `if not jobs` (line 131): the fallback scan runs.
\* (Faulty variant: it runs whatever the table gave.)
FallbackAlways(jobs) == TRUE
FallbackRuns(jobs) == jobs = <<>>

\* Lines 48-178: fetch_jobs on a parsed page.  A table accepted without a
\* single <tr> makes line 77 raise (header_row is None).
ExtractFreshersNow(doc, limit) ==
    LET t == FindTargetTable(doc.tables)
    IN  IF t # 0 /\ doc.tables[t].trs = <<>> THEN RaisedError
        ELSE LET jobs == IF t # 0 THEN TableJobs(doc.tables[t], limit) ELSE <<>>
             IN  IF FallbackRuns(jobs)
                 THEN Returned(WalkItems(FoundItems(doc), jobs, limit), TRUE)
                 ELSE Returned(jobs, FALSE)

\* Lines 45-46 and 48-178: fetch_jobs.
FetchJobs(src, limit) ==
    IF src.ok THEN ExtractFreshersNow(src.doc, limit) ELSE RaisedError

\* ------------------------------------- fetch_tnpofficer_jobs and fetch_offcampus_jobs
\* An <a href> of a listing page: its text, its stripped href and whether an
\* image URL can be found for it.
Link(text, href, img) == [text |-> text, href |-> href, img |-> img]

\* href.startswith("https://<the source's site>/") (lines 213, 320, 369).
OnSite(href) == href \in Links

\* `not text or len(text) < 6` (lines 215, 323, 371).
TooShort(text) == text \in {"", "hi"}

\* The keyword denylists (lines 219, 327, 376); "nav" stands for a text that
\* holds one of the source's keywords.
Denied(text) == text = "nav"

\* select(...) or [soup] (lines 202-206, 361-363): the containers scanned, the
\* whole page when the selector finds none.
Containers(doc) == IF doc.containers # <<>> THEN doc.containers ELSE <<doc.body>>

\* `if href in seen: continue` (lines 221, 329, 373).
AlreadySeen(href, seen_hrefs) == href \in seen_hrefs

RECURSIVE WalkAnchors(_, _, _, _)
\* Lines 210-261 (needImg FALSE) and 366-400 (needImg TRUE): the loop over one
\* container's anchors.  seen is the set of the hrefs of jobs.
WalkAnchors(anchors, jobs, limit, needImg) ==
    IF anchors = <<>> THEN jobs
    ELSE LET a == Head(anchors)
         IN  IF \/ ~OnSite(a.href) \/ TooShort(a.text) \/ Denied(a.text)
                \/ AlreadySeen(a.href, SeqRange(LinksOf(jobs)))
                \/ (needImg /\ ~a.img)
             THEN WalkAnchors(Tail(anchors), jobs, limit, needImg)
             ELSE LET more == Append(jobs, MkJob(a.text, a.href))
                  IN  IF Reached(limit, more) THEN more
                      ELSE WalkAnchors(Tail(anchors), more, limit, needImg)

RECURSIVE WalkContainers(_, _, _, _)
\* Lines 209-263 and 365-402: the loop over the containers, left as soon as
\* the cap is reached.
WalkContainers(containers, jobs, limit, needImg) ==
    IF containers = <<>> THEN jobs
    ELSE LET more == WalkAnchors(Head(containers), jobs, limit, needImg)
         IN  IF Reached(limit, more) THEN more
             ELSE WalkContainers(Tail(containers), more, limit, needImg)

\* Lines 196-266: fetch_tnpofficer_jobs on a parsed page.
ExtractTnpOfficer(doc, limit) ==
    Returned(WalkContainers(Containers(doc), <<>>, limit, FALSE), FALSE)

\* Lines 193-194 and 196-266: fetch_tnpofficer_jobs.
FetchTnpOfficerJobs(src, limit) ==
    IF src.ok THEN ExtractTnpOfficer(src.doc, limit) ELSE RaisedError

\* A .td_module_wrap of the grid: titleA is its "h3.entry-title a[href]" and
\* thumbA its ".td-module-thumb a[href]" (has FALSE without one), img whether
\* an image URL can be found in the module.
ModAnchor(has, text, href) == [has |-> has, text |-> text, href |-> href]
Module(titleA, thumbA, img) == [titleA |-> titleA, thumbA |-> thumbA, img |-> img]

\* Lines 316-322: a = title_a or thumb_a; the title is title_a's text, or a's.
ModHref(mod) == IF mod.titleA.has THEN mod.titleA.href ELSE mod.thumbA.href
ModTitle(mod) == IF mod.titleA.has THEN mod.titleA.text ELSE mod.thumbA.text

RECURSIVE WalkModules(_, _, _)
\* Lines 312-357: the loop over the grid's modules.
WalkModules(mods, jobs, limit) ==
    IF mods = <<>> THEN jobs
    ELSE LET mod == Head(mods)
         IN  IF \/ ~(mod.titleA.has \/ mod.thumbA.has)
                \/ ~OnSite(ModHref(mod)) \/ TooShort(ModTitle(mod)) \/ Denied(ModTitle(mod))
                \/ AlreadySeen(ModHref(mod), SeqRange(LinksOf(jobs)))
                \/ ~mod.img
             THEN WalkModules(Tail(mods), jobs, limit)
             ELSE LET more == Append(jobs, MkJob(ModTitle(mod), ModHref(mod)))
                  IN  IF Reached(limit, more) THEN more
                      ELSE WalkModules(Tail(mods), more, limit)

\* Lines 293-405: fetch_offcampus_jobs on a parsed page: the grid's modules
\* when the grid is there, and the generic crawl when that gave nothing.
ExtractOffCampus(doc, limit) ==
    LET jobs == IF doc.grid THEN WalkModules(doc.mods, <<>>, limit) ELSE <<>>
    IN  IF jobs = <<>>
        THEN Returned(WalkContainers(Containers(doc), jobs, limit, TRUE), TRUE)
        ELSE Returned(jobs, FALSE)

\* Lines 291-292 and 293-405: fetch_offcampus_jobs.
FetchOffCampusJobs(src, limit) ==
    IF src.ok THEN ExtractOffCampus(src.doc, limit) ELSE RaisedError

\* -------------------------------------------------------------- aggregator
\* a + b + c (line 277).
Concat(a, b, c) == a \o b \o c

\* Lines 274-277: fetch_combined_jobs.  The three calls stand in a row with
\* no try around any: the first that raises ends the call.
FetchCombinedJobs(w, limit_per_source) ==
    LET a == FetchJobs(w.fn, IntLimit(limit_per_source))
        b == FetchTnpOfficerJobs(w.tnp, IntLimit(limit_per_source))
        c == FetchOffCampusJobs(w.off, IntLimit(limit_per_source))
    IN  IF a.raised \/ b.raised \/ c.raised THEN RaisedError
        ELSE Returned(Concat(a.jobs, b.jobs, c.jobs), FALSE)

\* ------------------------------------------------- python values of _seen
\* A channel entry, the value under a channel key.
\*   kind "obj"   : a dict; hasLinks says whether it has the key "links",
\*                  iter whether that value can be turned into a set of
\*                  hashable items, links the list itself;
\*   kind "other" : any non-dict JSON value (it has no .get).
MkEntry(links) == [kind |-> "obj", hasLinks |-> TRUE, iter |-> TRUE, links |-> links]
EntryNoLinks == [kind |-> "obj", hasLinks |-> FALSE, iter |-> TRUE, links |-> <<>>]
EntryBadLinks == [kind |-> "obj", hasLinks |-> TRUE, iter |-> FALSE, links |-> <<>>]
EntryOther == [kind |-> "other", hasLinks |-> FALSE, iter |-> FALSE, links |-> <<>>]

\* Dictionary keys: python distinguishes the int 1 from the str "1".
StrKey(d) == [isStr |-> TRUE, id |-> d]
IntKey(d) == [isStr |-> FALSE, id |-> d]

NoChannels == [k \in {} |-> EntryOther]

\* The value under "channels": a dict of entries (kind "obj") or anything else.
MkChannels(m) == [kind |-> "obj", m |-> m]
ChannelsOther == [kind |-> "other", m |-> NoChannels]

\* The whole store value self._seen.
\*   kind "obj"  : a dict, hasCh = it has the key "channels", ch = that value;
\*   kind "arr"  : a list, hasCh = "channels" is one of its elements;
\*   kind "str"  : a string, hasCh = "channels" is a substring of it;
\*   kind "num", "null": a number, None.
MkStore(m) == [kind |-> "obj", hasCh |-> TRUE, ch |-> MkChannels(m)]
OtherStore(kind, hasCh) == [kind |-> kind, hasCh |-> hasCh, ch |-> ChannelsOther]

\* {"channels": {}}
EmptyStore == MkStore(NoChannels)

\* ------------------------------------------------------ the file contents
\* Content of data/seen.json or data/seen.tmp.
\*   "missing" : no such file;          "blank"   : empty or whitespace only;
\*   "garbage" : text json.loads rejects;
\*   "partial" : a proper prefix of a dump (down to nothing at all), left by
\*               a write that failed or was killed;
\*   "json"    : the complete JSON text of val;
\*   "stale"   : (seen.tmp only) a complete dump that a save wrote and never
\*               moved into place; nothing reads it before the next save
\*               overwrites it, so its text is not kept.
FileMissing == [kind |-> "missing", val |-> EmptyStore]
FileBlank == [kind |-> "blank", val |-> EmptyStore]
FileGarbage == [kind |-> "garbage", val |-> EmptyStore]
FilePartial == [kind |-> "partial", val |-> EmptyStore]
FileStale == [kind |-> "stale", val |-> EmptyStore]
FileJson(v) == [kind |-> "json", val |-> v]

\* json.dumps turns every dict key into a JSON string: the int key 1 and the
\* str key "1" both become "1" (when both are present the str entry is kept).
JsonKeys(m) ==
    [k \in {StrKey(x.id) : x \in DOMAIN m} |->
        IF k \in DOMAIN m THEN m[k] ELSE m[IntKey(k.id)]]

\* json.dumps(self._seen, indent=2): the complete JSON text of the store.
Dumps(s) ==
    FileJson(IF s.kind = "obj" /\ s.ch.kind = "obj"
             THEN [s EXCEPT !.ch.m = JsonKeys(s.ch.m)]
             ELSE s)

\* json.loads(content) raises on anything but complete JSON text.  (Of a
\* prefix cut down to nothing line 153 makes no call at all and keeps the
\* constructor's store, which is the same empty store; "partial" files are
\* only ever loaded under the in-place variant of the save.)
LoadsRaises(f) == f.kind \in {"garbage", "partial"}

\* `"channels" in value`: membership test on whatever json.loads returned.
\* Numbers and None do not support `in` (TypeError).
InRaises(v) == v.kind \in {"num", "null"}

\* _load_seen: the value of self._seen after it, given the value before
\* (the constructor's) and the file on disk.
LoadSeen(prev, f) ==
    IF f.kind \in {"missing", "blank"} THEN prev
    ELSE IF LoadsRaises(f) THEN EmptyStore
    ELSE IF InRaises(f.val) THEN EmptyStore
    ELSE IF ~f.val.hasCh THEN EmptyStore
    ELSE f.val

\* ------------------------------------------------------ dedup operations
\* str(channel_id): the key a channel's entry is stored under.
\* (Faulty variants: one key for every channel; the id itself as the key.)
ChanKeyShared(d) == StrKey(1)
ChanKeyInt(d) == IntKey(d)
ChanKey(d) == StrKey(d)

\* The default both .get and .setdefault fall back to: {"links": []}.
DefaultEntry == MkEntry(<<>>)

\* self._seen["channels"] raises unless _seen is a dict with that key.
SubscriptRaises(s) == s.kind # "obj" \/ ~s.hasCh

\* chan.get("links", [])
EntryLinks(e) == IF e.hasLinks THEN e.links ELSE <<>>

\* self._seen["channels"].get(str(channel_id), {"links": []})
ChanGet(s, d) ==
    IF ChanKey(d) \in DOMAIN s.ch.m THEN s.ch.m[ChanKey(d)] ELSE DefaultEntry

\* Whether lines 172-173 (and likewise 179-180) raise: the subscript, the
\* .get/.setdefault on a non-dict, the .get on a non-dict entry, or set() of
\* a value that is not a list of hashable items.
LookupRaises(s, d) ==
    \/ SubscriptRaises(s)
    \/ s.ch.kind # "obj"
    \/ ChanGet(s, d).kind # "obj"
    \/ (ChanGet(s, d).hasLinks /\ ~ChanGet(s, d).iter)

\* seen_links = set(chan.get("links", []))
SeenLinks(s, d) == SeqRange(EntryLinks(ChanGet(s, d)))

\* The store after _filter_new's lookup: .get inserts nothing.
\* (Faulty variant: .setdefault in its place, which inserts the default.)
StoreAfterSetdefault(s, d) ==
    IF ChanKey(d) \in DOMAIN s.ch.m THEN s
    ELSE [s EXCEPT !.ch.m =
            [k \in DOMAIN s.ch.m \cup {ChanKey(d)} |->
                IF k = ChanKey(d) THEN DefaultEntry ELSE s.ch.m[k]]]
StoreAfterGet(s, d) == s

RECURSIVE NewJobs(_, _)
\* new = [j for j in jobs if j.link not in seen_links]
NewJobs(seen_links, jobs) ==
    IF jobs = <<>> THEN <<>>
    ELSE IF Head(jobs).link \notin seen_links
         THEN <<Head(jobs)>> \o NewJobs(seen_links, Tail(jobs))
         ELSE NewJobs(seen_links, Tail(jobs))

\* current = set(chan.get("links", [])); current.update(links)
\* (Faulty variants: the new links replace the old; the update is left out.)
UpdatedOverwrite(current, links) == SeqRange(links)
UpdatedForgotten(current, links) == current
Updated(current, links) == current \cup SeqRange(links)

\* chan = self._seen["channels"].setdefault(str(channel_id), {"links": []})
\* (Faulty variant: a fresh entry every time.)
ChanFresh(s, d) == DefaultEntry
ChanSetdefault(s, d) == ChanGet(s, d)

\* self._seen after lines 179-182: the channel's entry (inserted if absent)
\* gets "links" = list(current).
AddSeenStore(s, d, links) ==
    LET chan == ChanSetdefault(s, d)
        current == Updated(SeqRange(EntryLinks(chan)), links)
    IN  [s EXCEPT !.ch.m =
            [k \in DOMAIN s.ch.m \cup {ChanKey(d)} |->
                IF k = ChanKey(d)
                THEN [chan EXCEPT !.hasLinks = TRUE, !.iter = TRUE,
                                  !.links = ListOf(current)]
                ELSE s.ch.m[k]]]


\* --------------------------------------------------------- the pages tried
\* The longest row list of a table, item list of a fallback pattern, anchor
\* or module list of a listing page, and the largest limit passed.
MaxRows == 2
MaxItems == 1
MaxAnchors == 2
MaxLimit == 2

SeqsUpTo(S, n) == UNION {[1..k -> S] : k \in 0..n}

\* A data row under the six wanted headers: the title in the job role cell,
\* links in the job role and the apply cell.
DataRow(title, roleHref, applyHref) ==
    << Cell(FALSE, "x", ""), Cell(FALSE, title, roleHref), Cell(FALSE, "x", ""),
       Cell(FALSE, "x", ""), Cell(FALSE, "x", ""), Cell(FALSE, "x", applyHref) >>

Table(loose, trs) == [loose |-> loose, trs |-> trs]

FnPage(tables, listed, generic) == [tables |-> tables, listed |-> listed, generic |-> generic]

\* Pages of freshersnow.com.
\*   Rows: two good ones, one without a title, one without any link, one
\*   with its only link in a seventh cell, one of three cells.
\*   Tables with such rows: under a <th> row of all six labels; a <td> row of
\*   four of them; <th> rows of three, or of five without "job role"; the six
\*   <th> under a caption row; the six <th> outside any <tr>.
\*   Decoy is a table of links that is no job table, Barren a job table whose
\*   rows give no record, Spare a second job table.
\*   Items: an anchor with text and link; an anchor without text beside a
\*   heading anchor with a blank href; only a heading anchor.
\* A page holds one table of any kind, with or without an item behind it; or
\* one of a few table lists with an item list of any kind, found by a listed
\* pattern or by the catch-all.
FnPages ==
    LET RowKinds ==
            { DataRow("t1", "", "A"), DataRow("t2", "B", ""), DataRow("", "", "C"),
              DataRow("t1", "", ""),
              DataRow("t1", "", "") \o <<Cell(FALSE, "", "C")>>,
              <<Cell(FALSE, "x", ""), Cell(FALSE, "t2", "A"), Cell(FALSE, "x", "")>> }
        TablesWith(rows) ==
            { Table(<<>>, <<HeadRow(TRUE, Wanted)>> \o rows),
              Table(<<>>, <<HeadRow(FALSE, <<"company", "job role", "location", "apply">>)>> \o rows),
              Table(<<>>, <<HeadRow(TRUE, <<"company", "job role", "apply">>)>> \o rows),
              Table(<<>>, <<HeadRow(TRUE, <<"company", "qualification", "experience",
                                           "location", "apply">>)>> \o rows),
              Table(<<>>, <<<<Cell(FALSE, "x", "")>>, HeadRow(TRUE, Wanted)>> \o rows),
              Table(HeadRow(TRUE, Wanted), rows) }
        FnTables == UNION {TablesWith(rows) : rows \in SeqsUpTo(RowKinds, MaxRows)}
        Decoy == Table(<<>>, <<HeadRow(TRUE, <<"company", "job role", "apply">>),
                               DataRow("t2", "", "C")>>)
        Barren == Table(<<>>, <<HeadRow(TRUE, Wanted), DataRow("t1", "", "")>>)
        Spare == Table(<<>>, <<HeadRow(TRUE, Wanted), DataRow("t2", "", "C")>>)
        ItemKinds ==
            { Item(Anchor("t1", "A"), NoAnchor), Item(Anchor("", "B"), Anchor("t2", " ")),
              Item(NoAnchor, Anchor("t2", "C")) }
    IN  { FnPage(<<t>>, li, <<>>) :
            t \in FnTables, li \in {<<>>, <<Item(Anchor("t2", "C"), NoAnchor)>>} }
        \cup { FnPage(ts, li, <<>>) :
            ts \in {<<>>, <<Decoy>>, <<Barren>>, <<Barren, Spare>>, <<Decoy, Spare>>},
            li \in SeqsUpTo(ItemKinds, MaxItems) }
        \cup { FnPage(ts, <<>>, ge) :
            ts \in {<<>>, <<Barren>>}, ge \in SeqsUpTo(ItemKinds, MaxItems) }

\* Listing anchors: good ones, one with the href of another, too short a
\* text, a denylisted text, an off-site href, no text.
LinkKinds ==
    { Link("t1", "A", TRUE), Link("t2", "B", FALSE), Link("t2", "A", TRUE),
      Link("hi", "C", TRUE), Link("nav", "C", TRUE), Link("t1", "X", TRUE),
      Link("", "B", TRUE) }

ListPage(containers, body) == [containers |-> containers, body |-> body]

\* Pages of tnpofficer.com: one container; the same container found twice
\* (one selector's match inside another's); a second container behind it;
\* none, and the page body scanned.
TnpPages ==
    LET S == SeqsUpTo(LinkKinds, MaxAnchors)
    IN  {ListPage(<<c>>, c) : c \in S} \cup {ListPage(<<c, c>>, c) : c \in S}
        \cup {ListPage(<<c, <<Link("t2", "C", TRUE)>>>>, c) : c \in S}
        \cup {ListPage(<<>>, c) : c \in S}

NoModAnchor == ModAnchor(FALSE, "", "")

GridPage(grid, mods, containers, body) ==
    [grid |-> grid, mods |-> mods, containers |-> containers, body |-> body]

\* Pages of offcampusjobs4u.com, with the grid and without.  Grid modules:
\* good ones (one found by its thumbnail link only, which has no text), one
\* without image, one with the href of another, one without any link, one
\* with a denylisted title.
OffPages ==
    LET ModKinds ==
            { Module(ModAnchor(TRUE, "t1", "A"), NoModAnchor, TRUE),
              Module(NoModAnchor, ModAnchor(TRUE, "", "B"), TRUE),
              Module(ModAnchor(TRUE, "t2", "B"), ModAnchor(TRUE, "", "B"), FALSE),
              Module(ModAnchor(TRUE, "t2", "A"), NoModAnchor, TRUE),
              Module(NoModAnchor, NoModAnchor, TRUE),
              Module(ModAnchor(TRUE, "nav", "C"), NoModAnchor, TRUE) }
    IN  { GridPage(TRUE, ms, <<>>, b) :
            ms \in SeqsUpTo(ModKinds, MaxAnchors),
            b \in {<<>>, <<Link("t2", "C", TRUE), Link("t1", "B", FALSE)>>} }
        \cup { GridPage(FALSE, <<>>, cs, b) :
            cs \in {<<>>, <<<<Link("t1", "C", TRUE)>>>>}, b \in SeqsUpTo(LinkKinds, MaxAnchors) }

Web(fn, tnp, off) == [fn |-> fn, tnp |-> tnp, off |-> off]

\* The sources when nothing looks closely at them: each up, two jobs a page.
QuietWeb ==
    Web(Up(FnPage(<<Table(<<>>, <<HeadRow(TRUE, Wanted), DataRow("t1", "", "A"),
                                  DataRow("t2", "B", "")>>)>>, <<>>, <<>>)),
        Up(ListPage(<<<<Link("t1", "B", TRUE), Link("t2", "C", TRUE)>>>>, <<>>)),
        Up(GridPage(TRUE, <<Module(ModAnchor(TRUE, "t1", "C"), NoModAnchor, TRUE),
                            Module(ModAnchor(TRUE, "t2", "A"), NoModAnchor, TRUE)>>,
                    <<>>, <<>>)))

\* The sources as the calls below find them: one of them with any of its
\* pages while the others show their quiet page; or each up or down.
WebInputs ==
    {[QuietWeb EXCEPT !.fn = Up(p)] : p \in FnPages}
    \cup {[QuietWeb EXCEPT !.tnp = Up(p)] : p \in TnpPages}
    \cup {[QuietWeb EXCEPT !.off = Up(p)] : p \in OffPages}
    \cup {[QuietWeb EXCEPT !.fn.ok = a, !.tnp.ok = b, !.off.ok = c] : a, b, c \in BOOLEAN}

\* The limits an extractor is called with.
LimitArgs == {NoneLimit} \cup {IntLimit(n) : n \in 0..MaxLimit}

Called(fn, limit, res) == [fn |-> fn, limit |-> limit, res |-> res]
NoCall == Called("none", NoneLimit, Returned(<<>>, FALSE))

\* ------------------------------------------------------------ the scheduler
\* A piece of text where a number is expected: a cron field, or a part of
\* "HH:MM".  It is a number (num) or not; "*" is Star, Tok(FALSE, 1) stands
\* for any other text ("x", "", "9am").
Tok(num, val) == [num |-> num, val |-> val]
Star == Tok(FALSE, 0)

\* TIMEZONE (line 35), taken to be the default.
TIMEZONE == "Asia/Kolkata"

\* pytz.timezone(name) raises UnknownTimeZoneError.
PytzRaises(name) == name \notin {"Asia/Kolkata", "UTC"}

\* CronTrigger(minute, hour, day, month, day_of_week) raises ValueError: a
\* field is neither "*" nor a number of the field's range.  (Lists, ranges
\* and steps, which it also accepts, are not among the texts tried.)
CronTriggerRaises(fields) ==
    LET lo == <<0, 0, 1, 1, 0>>
        hi == <<59, 23, 31, 12, 6>>
    IN  \E i \in 1..5 :
            /\ fields[i] # Star
            /\ ~(fields[i].num /\ fields[i].val \in lo[i]..hi[i])

\* A job of the scheduler: its id, its trigger's fields (minute, hour, day,
\* month, day of week) and the trigger's timezone.
SchedJob(id, fields, tz) == [id |-> id, fields |-> fields, tz |-> tz]

\* The job ids: id="daily_refresh" (line 82), f"refresh_{channel_id}" (282).
DailyId == [name |-> "daily_refresh", chan |-> 0]
JobId(channel_id) == [name |-> "refresh", chan |-> channel_id]

\* The environment: REFRESH_CRON as its whitespace-separated fields (set:
\* the variable is there and not empty), DEFAULT_CHANNEL_ID as the channel's
\* id (0: not set).
Env(set, fields, channel) ==
    [cron |-> [set |-> set, fields |-> fields], channel |-> channel]
NoEnv == Env(FALSE, <<>>, 0)

\* Lines 74-87: the scheduler's jobs after setup_hook.  The unpacking of
\* split() raises unless there are five fields, CronTrigger raises on a bad
\* field, and the except clause logs either; then nothing is added.
StartupRegistry(e) ==
    IF /\ e.cron.set /\ e.channel # 0
       /\ Len(e.cron.fields) = 5 /\ ~CronTriggerRaises(e.cron.fields)
    THEN {SchedJob(DailyId, e.cron.fields, TIMEZONE)}
    ELSE {}

\* Line 278: timezone = tz or TIMEZONE ("": the option was not given).
Timezone(tz) == IF tz = "" THEN TIMEZONE ELSE tz

\* Line 283: CronTrigger(hour=hour, minute=minute, timezone=tzinfo); the
\* fields not given are "*".
HourMinute(time) == <<time[2], time[1], Star, Star, Star>>

\* Lines 278-283: what raises before the scheduler is touched.  pytz on the
\* timezone; the unpacking of map(int, time_hhmm.split(":")) unless it has
\* two parts, or int() on a part that is no number; CronTrigger on an hour
\* or a minute out of range.
ScheduleRaises(time, tz) ==
    \/ PytzRaises(Timezone(tz))
    \/ Len(time) # 2
    \/ \E i \in 1..Len(time) : ~time[i].num
    \/ CronTriggerRaises(HourMinute(time))

\* Lines 291-298: remove_job if the id is there, then
\* add_job(..., id=job_id, replace_existing=True).
\* (Faulty variant: the job is added next to the one already there.)
RescheduleKeepOld(reg, job) == reg \cup {job}
Reschedule(reg, job) == {j \in reg : j.id # job.id} \cup {job}

\* Lines 303-305: the scheduler's jobs after a call that raised: nothing was
\* done to them yet.
\* (Faulty variant: the old job is removed before the input is looked at.)
RemovedFirst(reg, id) == {j \in reg : j.id # id}
AfterRaise(reg, id) == reg

\* History: what the scheduler side did last.  op: "setup" (lines 74-87),
\* "schedule" (a schedule_refresh_command call) or "tick" (a job fired); id:
\* the job; time, tz: the call's arguments, or the fired job's fields and
\* timezone; ok: nothing raised; found: get_channel returned a channel;
\* logged: a line went to the log; last: for each channel the job of the
\* last call accepted (with no fields before the first); replaced: the
\* channel whose job the last call accepted replaced by a different one (0:
\* it replaced none).
Event(op, id, time, tz, ok, found, logged, last, replaced) ==
    [op |-> op, id |-> id, time |-> time, tz |-> tz, ok |-> ok,
     found |-> found, logged |-> logged, last |-> last, replaced |-> replaced]
NoEvent ==
    Event("none", DailyId, <<>>, "", TRUE, TRUE, FALSE,
          [d \in Dest |-> SchedJob(JobId(d), <<>>, "")], 0)

\* The arguments a schedule_refresh_command call is given: "09:30", "18:00",
\* "24:00", "9" or "x:30" with no timezone, and "09:30" with "Mars/Phobos".
ScheduleArgs ==
    { [time |-> t, tz |-> ""] :
        t \in { <<Tok(TRUE, 9), Tok(TRUE, 30)>>, <<Tok(TRUE, 18), Tok(TRUE, 0)>>,
                <<Tok(TRUE, 24), Tok(TRUE, 0)>>, <<Tok(TRUE, 9)>>,
                <<Tok(FALSE, 1), Tok(TRUE, 30)>> } }
    \cup { [time |-> <<Tok(TRUE, 9), Tok(TRUE, 30)>>, tz |-> "Mars/Phobos"] }

\* The environments the bot is started in: no REFRESH_CRON; "0 9 * * *",
\* "0 9 * *", "60 9 * * *" or "0 x * * *" with channel 2 as the default
\* channel; "0 9 * * *" and no default channel.
EnvInputs ==
    { NoEnv, Env(TRUE, <<Tok(TRUE, 0), Tok(TRUE, 9), Star, Star, Star>>, 0) }
    \cup { Env(TRUE, f, 2) :
             f \in { <<Tok(TRUE, 0), Tok(TRUE, 9), Star, Star, Star>>,
                     <<Tok(TRUE, 0), Tok(TRUE, 9), Star, Star>>,
                     <<Tok(TRUE, 60), Tok(TRUE, 9), Star, Star, Star>>,
                     <<Tok(TRUE, 0), Tok(FALSE, 1), Star, Star, Star>> } }

\* ------------------------------------------------------------------ state
VARIABLES
    phase,      \* "init": constructed, setup_hook not yet past _load_seen; "running"
    seen,       \* self._seen
    lock,       \* self._seen_lock: 0 when free, else the run holding it
    file,       \* data/seen.json
    tmp,        \* data/seen.tmp
    run,        \* the post_jobs coroutines, by slot
    delivered,  \* history: per channel, the links of the job embeds it received
    saved,      \* history: the store value the last completed save replaced the file
                \* with; failed: a save of this process has failed
    disk0,      \* history: the content of seen.json when the model starts
    slots,      \* the coroutine slots triggers may use
    page,       \* the job lists a fetch may return
    chans,      \* the channels triggers post to
    track,      \* whether the histories delivered and run[r].fetched are kept
    web,        \* the three source sites, as a fetch finds them
    call,       \* history: the last call of a scraper function and what it gave
    env,        \* the environment: REFRESH_CRON, DEFAULT_CHANNEL_ID
    registry,   \* self.scheduler: its jobs
    ev          \* history: the last thing the scheduler side did

vars == <<phase, seen, lock, file, tmp, run, delivered, saved, disk0, slots, page, chans, track, web, call, env, registry, ev>>

\* A slot with no coroutine in it.  The fields are post_jobs's parameters and
\* locals, and history: fetched, the job list as the fetch returned it; out,
\* the messages the run has handed to destination.send, in order; seen0, the
\* store as it was when the run began.
Idle ==
    [pc |-> "idle", dest |-> 1, only_new |-> FALSE, fetched |-> <<>>,
     jobs |-> <<>>, new_links |-> <<>>, sent |-> 0, outcome |-> "none",
     out |-> <<>>, seen0 |-> EmptyStore]

\* A message handed to destination.send: a text (one of the two notices, the
\* header) or an embed, with the job records it carries.
Text(kind) == [kind |-> kind, embeds |-> <<>>]
Embed(job) == [kind |-> "embed", embeds |-> <<job>>]

\* The run's record once destination.send(msg) has returned.
Sent(rec, msg) == IF track THEN [rec EXCEPT !.out = Append(@, msg)] ELSE rec

\* Files a previous process (or an operator's editor) may have left behind.
FirstStart == {FileMissing}
OtherFiles ==
    { FileBlank, FileGarbage,
      FileJson(MkStore([k \in {StrKey(1)} |-> MkEntry(<<"A", "A">>)])),
      FileJson(OtherStore("null", FALSE)),                      \* null
      FileJson(OtherStore("obj", FALSE)),                       \* {"destinations": {}}
      FileJson(OtherStore("arr", TRUE)),                        \* ["channels"]
      FileJson([kind |-> "obj", hasCh |-> TRUE, ch |-> ChannelsOther]),  \* {"channels": []}
      FileJson(MkStore([k \in {StrKey(1)} |-> EntryOther])),    \* {"channels": {"1": 5}}
      FileJson(MkStore([k \in {StrKey(1)} |-> EntryBadLinks])), \* {"channels": {"1": {"links": 5}}}
      FileJson(MkStore([k \in {StrKey(1)} |-> EntryNoLinks])),  \* {"channels": {"1": {}}}
      FileJson(EmptyStore) }
InitFiles == FirstStart \cup OtherFiles

NoLinks == [d \in Dest |-> {}]
NotSaved == [valid |-> FALSE, store |-> EmptyStore, failed |-> FALSE]

\* __init__ (lines 44-54): an empty store, a free lock, whatever is on disk.
Constructed ==
    /\ phase = "init"
    /\ seen = EmptyStore
    /\ lock = 0
    /\ tmp = FileMissing
    /\ run = [r \in Runs |-> Idle]
    /\ delivered = NoLinks
    /\ saved = NotSaved
    /\ disk0 = file
    /\ call = NoCall
    /\ registry = {}
    /\ ev = NoEvent

\* Overlapping triggers in two channels, a short page, a first start.
Init ==
    /\ file \in FirstStart
    /\ Constructed
    /\ slots = Runs
    /\ page = FetchResults(ShortFeed, 1)
    /\ chans = Dest
    /\ track = FALSE
    /\ web = QuietWeb
    /\ env = NoEnv

\* One trigger at a time in one channel, the whole page, any file on disk.
InitSingle ==
    /\ file \in InitFiles
    /\ Constructed
    /\ slots = {1}
    /\ page = FetchResults(Len(Feed), MaxJobs)
    /\ chans = {1}
    /\ track = TRUE
    /\ web = QuietWeb
    /\ env = NoEnv

\* ---------------------------------------------------------------- startup
\* setup_hook, lines 69-87: the scheduler is started, _load_seen reads the
\* file, and the REFRESH_CRON job is added if the variable holds a schedule.
Load ==
    /\ phase = "init"
    /\ seen' = LoadSeen(seen, file)
    /\ phase' = "running"
    /\ registry' = StartupRegistry(env)
    /\ ev' = [ev EXCEPT !.op = "setup", !.id = DailyId,
                        !.time = env.cron.fields, !.tz = "",
                        !.ok = ~(env.cron.set /\ env.channel # 0
                                    /\ StartupRegistry(env) = {}),
                        !.found = TRUE,
                        !.logged = env.cron.set /\ env.channel # 0]
    /\ UNCHANGED <<lock, file, tmp, run, delivered, saved, disk0, slots, page, chans, track, web, call, env>>

\* The process is killed (at any point) and started again: memory, lock,
\* coroutines and the scheduler's jobs (which it keeps in memory) are gone,
\* the files and what the channels received stay.
Kill ==
    /\ phase = "running"
    /\ phase' = "init"
    /\ seen' = EmptyStore
    /\ lock' = 0
    /\ run' = [r \in Runs |-> Idle]
    /\ tmp' = IF tmp.kind = "json" THEN FileStale ELSE tmp
    /\ registry' = {}
    /\ ev' = NoEvent
    /\ saved' = [saved EXCEPT !.failed = FALSE]
    /\ UNCHANGED <<file, delivered, disk0, slots, page, chans, track, web, call, env>>

\* --------------------------------------------------------------- post_jobs
\* A run that is over: what is kept of it is where it posted and how it
\* ended (and all of its record where the histories are kept).  Raised: a
\* call raised out of post_jobs.
Ended(rec, how) ==
    IF track THEN [rec EXCEPT !.pc = "done", !.outcome = how]
    ELSE [Idle EXCEPT !.pc = "done", !.outcome = how, !.dest = rec.dest]
Raised(r) == Ended(run[r], "raised")

\* Lines 100-120 up to the first await: post_jobs is called for channel d and
\* the blocking fetch returns js.
Begin(d, on, js) ==
    [Idle EXCEPT
       !.dest = d, !.only_new = on, !.jobs = js,
       !.fetched = IF track THEN js ELSE <<>>,
       !.seen0 = IF track THEN seen ELSE EmptyStore,
       !.new_links = IF on THEN <<>> ELSE LinksOf(js),
       !.pc = IF js = <<>> THEN "notice_nojobs"
              ELSE IF on THEN "filter" ELSE "header"]

\* Lines 102-107: or the fetch raises (a source is down, see
\* FetchCombinedJobs), and with it post_jobs.
FetchRaised(d, on) ==
    Ended([Idle EXCEPT !.dest = d, !.only_new = on,
                       !.seen0 = IF track THEN seen ELSE EmptyStore], "raised")

\* A slash command (jobs_command, refresh_now_command) calls post_jobs for
\* its channel.
Start(r) ==
    /\ phase = "running"
    /\ r \in slots
    /\ run[r].pc = "idle"
    /\ \E d \in chans, on \in BOOLEAN :
          \/ \E js \in page : run' = [run EXCEPT ![r] = Begin(d, on, js)]
          \/ run' = [run EXCEPT ![r] = FetchRaised(d, on)]
    /\ UNCHANGED <<phase, seen, lock, file, tmp, delivered, saved, disk0, slots, page, chans, track, web, call, env, registry, ev>>

\* Lines 110 and 118: `return` after the notice.
\* (Faulty variant: the return is missing and the run goes on to the header.)
FallThrough(rec, how) == [rec EXCEPT !.pc = "header"]
AfterNotice(rec, how) == Ended(rec, how)

\* Lines 108-110: "No jobs found right now."; the send returns or raises.
NoJobs(r) ==
    /\ run[r].pc = "notice_nojobs"
    /\ \/ run' = [run EXCEPT ![r] =
                    AfterNotice(Sent(run[r], Text("no jobs found")), "nojobs")]
       \/ run' = [run EXCEPT ![r] = Raised(r)]
    /\ UNCHANGED <<phase, seen, lock, file, tmp, delivered, saved, disk0, slots, page, chans, track, web, call, env, registry, ev>>

\* Lines 115-116 and 171-175: _filter_new.  The lock is taken, the lookup
\* made and the lock given back without an await in between, so other
\* coroutines see none of it; then the list comprehension and the test.
FilterNew(r) ==
    /\ run[r].pc = "filter"
    /\ lock = 0
    /\ IF LookupRaises(seen, run[r].dest)
       THEN /\ run' = [run EXCEPT ![r] = Raised(r)]
            /\ seen' = seen
       ELSE LET new == NewJobs(SeenLinks(seen, run[r].dest), run[r].jobs)
            IN  /\ seen' = StoreAfterGet(seen, run[r].dest)
                /\ run' = [run EXCEPT ![r].jobs = new, ![r].new_links = LinksOf(new),
                              ![r].pc = IF new = <<>> THEN "notice_nonew" ELSE "header"]
    /\ UNCHANGED <<phase, lock, file, tmp, delivered, saved, disk0, slots, page, chans, track, web, call, env, registry, ev>>

\* Lines 116-118: "No new jobs since last post."
NoNew(r) ==
    /\ run[r].pc = "notice_nonew"
    /\ \/ run' = [run EXCEPT ![r] =
                    AfterNotice(Sent(run[r], Text("no new jobs")), "nonew")]
       \/ run' = [run EXCEPT ![r] = Raised(r)]
    /\ UNCHANGED <<phase, seen, lock, file, tmp, delivered, saved, disk0, slots, page, chans, track, web, call, env, registry, ev>>

\* Lines 122-123: every caller passes a header; the send returns or raises.
SendHeader(r) ==
    /\ run[r].pc = "header"
    /\ \/ run' = [run EXCEPT ![r] = [Sent(run[r], Text("header")) EXCEPT !.pc = "sending"]]
       \/ run' = [run EXCEPT ![r] = Raised(r)]
    /\ UNCHANGED <<phase, seen, lock, file, tmp, delivered, saved, disk0, slots, page, chans, track, web, call, env, registry, ev>>

\* `for job in jobs` (line 126): the job of the loop's next turn.
\* (Faulty variant: the list is walked from its end.)
JobFromEnd(rec) == rec.jobs[Len(rec.jobs) - rec.sent]
NextJob(rec) == rec.jobs[rec.sent + 1]

\* Lines 126-142: one turn of the loop; the send of the embed returns (the
\* channel now shows the job) or raises.
SendJob(r) ==
    /\ run[r].pc = "sending"
    /\ run[r].sent < Len(run[r].jobs)
    /\ \/ /\ run' = [run EXCEPT ![r] =
                       [Sent(run[r], Embed(NextJob(run[r]))) EXCEPT !.sent = @ + 1]]
          /\ delivered' = IF track
                          THEN [delivered EXCEPT ![run[r].dest] =
                                  @ \cup {NextJob(run[r]).link}]
                          ELSE delivered
       \/ /\ run' = [run EXCEPT ![r] = Raised(r)]
          /\ delivered' = delivered
    /\ UNCHANGED <<phase, seen, lock, file, tmp, saved, disk0, slots, page, chans, track, web, call, env, registry, ev>>

\* The loop of lines 126-142 has run to its end.
\* (Faulty variant: the commit does not wait for it.)
CommitEarly(rec) == TRUE
LoopDone(rec) == rec.sent = Len(rec.jobs)

\* Lines 178-183: who holds the lock when _add_seen of run r calls
\* _save_seen: nobody, the call stands after the `async with` block.
\* (Faulty variant: the call stands inside the block and r still holds it.)
HeldIntoSave(r) == r
ReleasedBeforeSave(r) == 0

\* Lines 145-146 and 178-182: the loop is over and _add_seen updates the
\* channel's entry, again without an await while it holds the lock.
AddSeen(r) ==
    /\ run[r].pc = "sending"
    /\ LoopDone(run[r])
    /\ lock = 0
    /\ IF LookupRaises(seen, run[r].dest)
       THEN /\ run' = [run EXCEPT ![r] = Raised(r)]
            /\ seen' = seen
            /\ lock' = 0
       ELSE /\ seen' = AddSeenStore(seen, run[r].dest, run[r].new_links)
            /\ run' = [run EXCEPT ![r].pc = "save"]
            /\ lock' = ReleasedBeforeSave(r)
    /\ UNCHANGED <<phase, file, tmp, delivered, saved, disk0, slots, page, chans, track, web, call, env, registry, ev>>

\* Where _save_seen writes the dump: seen_file.with_suffix(".tmp") (line 164).
\* (Faulty variant: straight into seen.json.)
WriteInPlace == "seen.json"
WritePath == "seen.tmp"

\* json.dumps(self._seen, indent=2) (line 165): what the save of a run for
\* channel d dumps is the whole store.
\* (Faulty variant: the entry of the run's own channel only.)
SnapshotOwn(s, d) ==
    [s EXCEPT !.ch.m = [k \in DOMAIN s.ch.m \cap {ChanKey(d)} |-> s.ch.m[k]]]
Snapshot(s, d) == s

\* The save is over (line 168 logged the failure, if any), post_jobs returns.
Delivered(r) == Ended(run[r], "delivered")

\* Lines 183 and 162-165: _save_seen takes the lock and write_text writes the
\* dump to the target: in full; or only a prefix of it (the disk fills up,
\* the write is cut), or nothing because the target cannot be opened, and
\* then the except clause ends the save.
SaveWrite(r) ==
    /\ run[r].pc = "save"
    /\ lock = 0
    /\ \/ /\ run' = [run EXCEPT ![r].pc = "save_replace"]
          /\ IF WritePath = "seen.tmp"
             THEN tmp' = Dumps(Snapshot(seen, run[r].dest)) /\ file' = file
             ELSE file' = Dumps(Snapshot(seen, run[r].dest)) /\ tmp' = tmp
          /\ lock' = r
          /\ saved' = saved
       \/ /\ run' = [run EXCEPT ![r] = Delivered(r)]
          /\ IF WritePath = "seen.tmp"
             THEN tmp' = FilePartial /\ file' = file
             ELSE file' = FilePartial /\ tmp' = tmp
          /\ lock' = 0
          /\ saved' = [saved EXCEPT !.failed = TRUE]
       \/ /\ run' = [run EXCEPT ![r] = Delivered(r)]
          /\ lock' = 0
          /\ saved' = [saved EXCEPT !.failed = TRUE]
          /\ UNCHANGED <<file, tmp>>
    /\ UNCHANGED <<phase, seen, delivered, disk0, slots, page, chans, track, web, call, env, registry, ev>>

\* Line 166: tmp_path.replace(self.seen_file), an atomic rename; or it fails
\* and nothing moves.  Either way the lock is released and post_jobs returns.
SaveReplace(r) ==
    /\ run[r].pc = "save_replace"
    /\ lock' = 0
    /\ run' = [run EXCEPT ![r] = Delivered(r)]
    /\ \/ /\ IF WritePath = "seen.tmp"
             THEN file' = tmp /\ tmp' = FileMissing
             ELSE UNCHANGED <<file, tmp>>
          /\ saved' = [saved EXCEPT !.valid = TRUE, !.store = seen]
       \/ /\ tmp' = IF tmp.kind = "json" THEN FileStale ELSE tmp
          /\ saved' = [saved EXCEPT !.failed = TRUE]
          /\ file' = file
    /\ UNCHANGED <<phase, seen, delivered, disk0, slots, page, chans, track, web, call, env, registry, ev>>

\* post_jobs has returned or raised; the slot is free for the next trigger.
Finish(r) ==
    /\ run[r].pc = "done"
    /\ run' = [run EXCEPT ![r] = Idle]
    /\ UNCHANGED <<phase, seen, lock, file, tmp, delivered, saved, disk0, slots, page, chans, track, web, call, env, registry, ev>>

Next ==
    \/ Load
    \/ Kill
    \/ \E r \in Runs : Start(r)
    \/ \E r \in Runs : NoJobs(r)
    \/ \E r \in Runs : FilterNew(r)
    \/ \E r \in Runs : NoNew(r)
    \/ \E r \in Runs : SendHeader(r)
    \/ \E r \in Runs : SendJob(r)
    \/ \E r \in Runs : AddSeen(r)
    \/ \E r \in Runs : SaveWrite(r)
    \/ \E r \in Runs : SaveReplace(r)
    \/ \E r \in Runs : Finish(r)

Spec == Init /\ [][Next]_vars

SpecSingle == InitSingle /\ [][Next]_vars

\* Overlapping triggers in two channels, a page of one posting, a first
\* start.
InitLive ==
    /\ file \in FirstStart
    /\ Constructed
    /\ slots = Runs
    /\ page = FetchResults(1, 1)
    /\ chans = Dest
    /\ track = FALSE
    /\ web = QuietWeb
    /\ env = NoEnv

\* The event loop runs every coroutine that can go on: a send returns or
\* raises, a blocking file call ends, and asyncio.Lock wakes its waiters in
\* the order they came, so a coroutine that asks for the lock gets it once
\* it has been free often enough.  Nothing obliges a trigger to arrive or
\* the process to be killed.
SpecLive ==
    /\ InitLive
    /\ [][Next]_vars
    /\ WF_vars(Load)
    /\ \A r \in Runs :
          /\ WF_vars(NoJobs(r)) /\ WF_vars(NoNew(r))
          /\ WF_vars(SendHeader(r)) /\ WF_vars(SendJob(r))
          /\ WF_vars(SaveReplace(r)) /\ WF_vars(Finish(r))
          /\ SF_vars(FilterNew(r)) /\ SF_vars(AddSeen(r)) /\ SF_vars(SaveWrite(r))

\* ------------------------------------------------------------- scheduling
\* schedule_refresh_command (lines 275-305) in channel d.  A bad timezone or
\* time raises before the scheduler is touched and the except clause logs
\* and answers "Failed to schedule refresh"; else the channel's job is
\* replaced by one with the new trigger.
ScheduleRefresh(d) ==
    /\ phase = "running"
    /\ d \in chans
    /\ \E a \in ScheduleArgs :
         IF ScheduleRaises(a.time, a.tz)
         THEN /\ registry' = AfterRaise(registry, JobId(d))
              /\ ev' = [ev EXCEPT !.op = "schedule", !.id = JobId(d),
                                  !.time = a.time, !.tz = a.tz, !.ok = FALSE,
                                  !.found = TRUE, !.logged = TRUE]
         ELSE LET job == SchedJob(JobId(d), HourMinute(a.time), Timezone(a.tz))
              IN  /\ registry' = Reschedule(registry, job)
                  /\ ev' = [ev EXCEPT !.op = "schedule", !.id = JobId(d),
                                      !.time = a.time, !.tz = a.tz, !.ok = TRUE,
                                      !.found = TRUE, !.logged = FALSE,
                                      !.last[d] = job,
                                      !.replaced =
                                          IF ev.last[d].fields # <<>> /\ ev.last[d] # job
                                          THEN d ELSE 0]
    /\ UNCHANGED <<phase, seen, lock, file, tmp, run, delivered, saved, disk0, slots, page, chans, track, web, call, env>>

\* A job fires and looks its channel d up.  get_channel gives the channel,
\* and the job calls post_jobs(channel, limit=10, only_new=True) in a free
\* slot (lines 96 and 296), where the fetch returns or raises; or it gives
\* None (the channel is gone, or not in the cache) and the job returns, with
\* or without a line in the log.
Tick(job, d, logs) ==
    /\ phase = "running"
    /\ job \in registry
    /\ \/ /\ \E r \in slots :
               /\ run[r].pc = "idle"
               /\ \/ \E js \in page : run' = [run EXCEPT ![r] = Begin(d, TRUE, js)]
                  \/ run' = [run EXCEPT ![r] = FetchRaised(d, TRUE)]
          /\ ev' = [ev EXCEPT !.op = "tick", !.id = job.id, !.time = job.fields,
                              !.tz = job.tz, !.ok = TRUE, !.found = TRUE,
                              !.logged = FALSE]
       \/ /\ run' = run
          /\ ev' = [ev EXCEPT !.op = "tick", !.id = job.id, !.time = job.fields,
                              !.tz = job.tz, !.ok = TRUE, !.found = FALSE,
                              !.logged = logs]
    /\ UNCHANGED <<phase, seen, lock, file, tmp, delivered, saved, disk0, slots, page, chans, track, web, call, env, registry>>

\* _scheduled_refresh (lines 89-98), the "daily_refresh" job, fires: the
\* channel is get_channel(int(DEFAULT_CHANNEL_ID)); on None, logger.error
\* "Default channel ... not found" and return.
TickDefault ==
    \E job \in registry : job.id = DailyId /\ Tick(job, env.channel, TRUE)

\* job() of schedule_refresh_command (lines 293-296), a channel's job, fires:
\* the channel is get_channel(interaction.channel_id); `if channel:` and
\* nothing else.
TickChannel ==
    \E job \in registry : job.id # DailyId /\ Tick(job, job.id.chan, FALSE)

\* Commands in channel 1, the schedule of the environment for channel 2, one
\* run at a time off a page of one posting, a first start.
InitSched ==
    /\ file \in FirstStart
    /\ Constructed
    /\ slots = {1}
    /\ page = FetchResults(1, 1)
    /\ chans = {1}
    /\ track = FALSE
    /\ web = QuietWeb
    /\ env \in EnvInputs

NextSched ==
    \/ Load
    \/ Kill
    \/ \E r \in Runs : Start(r)
    \/ \E r \in Runs : NoJobs(r)
    \/ \E r \in Runs : FilterNew(r)
    \/ \E r \in Runs : NoNew(r)
    \/ \E r \in Runs : SendHeader(r)
    \/ \E r \in Runs : SendJob(r)
    \/ \E r \in Runs : AddSeen(r)
    \/ \E r \in Runs : SaveWrite(r)
    \/ \E r \in Runs : SaveReplace(r)
    \/ \E r \in Runs : Finish(r)
    \/ \E d \in Dest : ScheduleRefresh(d)
    \/ TickDefault
    \/ TickChannel

SpecSched == InitSched /\ [][NextSched]_vars

\* ------------------------------------------------------ calls of the scraper
\* A call of fetch_jobs, fetch_tnpofficer_jobs or fetch_offcampus_jobs with
\* some limit, and of fetch_combined_jobs with some per-source limit.  The
\* functions keep no state between calls, so one call per start is recorded.
CallFetchJobs ==
    /\ call = NoCall
    /\ \E lim \in LimitArgs : call' = Called("fetch_jobs", lim, FetchJobs(web.fn, lim))
    /\ UNCHANGED <<phase, seen, lock, file, tmp, run, delivered, saved, disk0, slots, page, chans, track, web, env, registry, ev>>

CallFetchTnpOfficerJobs ==
    /\ call = NoCall
    /\ \E lim \in LimitArgs :
          call' = Called("fetch_tnpofficer_jobs", lim, FetchTnpOfficerJobs(web.tnp, lim))
    /\ UNCHANGED <<phase, seen, lock, file, tmp, run, delivered, saved, disk0, slots, page, chans, track, web, env, registry, ev>>

CallFetchOffCampusJobs ==
    /\ call = NoCall
    /\ \E lim \in LimitArgs :
          call' = Called("fetch_offcampus_jobs", lim, FetchOffCampusJobs(web.off, lim))
    /\ UNCHANGED <<phase, seen, lock, file, tmp, run, delivered, saved, disk0, slots, page, chans, track, web, env, registry, ev>>

CallFetchCombinedJobs ==
    /\ call = NoCall
    /\ \E n \in 0..MaxLimit :
          call' = Called("fetch_combined_jobs", IntLimit(n), FetchCombinedJobs(web, n))
    /\ UNCHANGED <<phase, seen, lock, file, tmp, run, delivered, saved, disk0, slots, page, chans, track, web, env, registry, ev>>

\* The scraper's functions called on pages of every kind.
InitScrape ==
    /\ file \in FirstStart
    /\ Constructed
    /\ slots = {}
    /\ page = {}
    /\ chans = {}
    /\ track = FALSE
    /\ web \in WebInputs
    /\ env = NoEnv

NextScrape ==
    \/ CallFetchJobs
    \/ CallFetchTnpOfficerJobs
    \/ CallFetchOffCampusJobs
    \/ CallFetchCombinedJobs

SpecScrape == InitScrape /\ [][NextScrape]_vars

\* ================================================================= claims
\* A run that has been through _add_seen and is inside or before its save.
Committed(r) == run[r].pc \in {"save", "save_replace"}

\* The links seen.json held for channel d when the model starts.
DiskLinks(d) == SeenLinks(LoadSeen(EmptyStore, disk0), d)

\* ---- C1 ----------------------------------------------------------------
\* C1: idempotent dedup.  Once a run has committed the links of what it
\* fetched (after filtering it, when only_new), a second _filter_new of the
\* same fetched list against the channel's seen set returns no job.
C1_IdempotentDedup ==
    \A r \in Runs :
        Committed(r) =>
            NewJobs(SeenLinks(seen, run[r].dest), run[r].fetched) = <<>>

\* The scenario: an empty store, jobs A, B, C all new the first time and
\* committed.
C1_Witness ==
    \E r \in Runs :
        /\ Committed(r) /\ run[r].only_new
        /\ disk0 = FileMissing
        /\ LinksOf(run[r].fetched) = <<"A", "B", "C">>
        /\ run[r].jobs = run[r].fetched
        /\ SeenLinks(seen, run[r].dest) = {"A", "B", "C"}

\* ---- C2 ----------------------------------------------------------------
\* The window of a run: it has filtered and has not yet committed.
InWindow(r) == run[r].only_new /\ run[r].pc \in {"header", "sending"}

\* C2: the filter-then-commit window is a critical section per channel: no
\* two runs for one channel are in their windows at once (a second run in
\* its window has filtered against the seen set the first has not updated).
C2_WindowExclusive ==
    \A r1, r2 \in Runs :
        (r1 # r2 /\ InWindow(r1) /\ InWindow(r2)) => run[r1].dest # run[r2].dest

\* ---- C3 ----------------------------------------------------------------
\* C3: no lost update.  Whatever runs have committed, each still finds all
\* the links it passed to _add_seen in its channel's seen set.
C3_NoLostUpdate ==
    \A r \in Runs :
        Committed(r) => SeqRange(run[r].new_links) \subseteq SeenLinks(seen, run[r].dest)

\* Two overlapping runs for one channel have both committed, different links.
C3_Witness ==
    \E r1, r2 \in Runs :
        /\ r1 # r2 /\ Committed(r1) /\ Committed(r2)
        /\ run[r1].dest = run[r2].dest
        /\ SeqRange(run[r1].new_links) # SeqRange(run[r2].new_links)

\* ---- C4 ----------------------------------------------------------------
\* C4: seen-set monotonicity.  While the process lives (from the load on),
\* no step takes a link out of any channel's seen set.
C4_Monotonic ==
    [][ (phase = "running" /\ phase' = "running") =>
            \A d \in Dest : SeenLinks(seen, d) \subseteq SeenLinks(seen', d) ]_vars

\* A channel has two links in memory, a save has failed part-way and a run
\* has ended with a delivery error.
C4_Witness ==
    /\ phase = "running"
    /\ tmp.kind = "partial"
    /\ \E d \in Dest : Cardinality(SeenLinks(seen, d)) >= 2
    /\ \E r \in Runs : run[r].pc = "done" /\ run[r].outcome = "raised"

\* ---- C5 ----------------------------------------------------------------
\* A step in which run r's _filter_new returns.
FilterReturns(r) ==
    run[r].pc = "filter" /\ run'[r].pc \in {"header", "notice_nonew"}

\* C5: _filter_new is read-only.  The step leaves the store in memory and
\* both files as they were, and returns exactly the input jobs whose link is
\* not in the channel's seen set, in input order.
C5_FilterReadOnly ==
    [][ \A r \in Runs :
          FilterReturns(r) =>
            LET Unseen(j) == j.link \notin SeenLinks(seen, run[r].dest)
            IN  /\ seen' = seen /\ file' = file /\ tmp' = tmp
                /\ run'[r].jobs = SelectSeq(run[r].jobs, Unseen)
                /\ run'[r].new_links = LinksOf(run'[r].jobs) ]_vars

\* A filter has returned having dropped one job of three and kept two.
C5_Witness ==
    \E r \in Runs :
        /\ run[r].only_new /\ run[r].pc = "header"
        /\ Len(run[r].fetched) = 3
        /\ Len(run[r].jobs) = 2

\* ---- C6 ----------------------------------------------------------------
\* The store with every channel's entry but d's taken out.
OnlyChannel(s, d) ==
    [s EXCEPT !.ch.m = [k \in DOMAIN s.ch.m \cap {StrKey(d)} |-> s.ch.m[k]]]

\* C6: per-channel isolation.  A commit for one channel leaves every other
\* channel's seen set as it was, and what _filter_new returns for a channel
\* is what it would return were the other channels' entries not there.
C6_Isolation ==
    [][ \A r \in Runs :
          /\ (run[r].pc = "sending" /\ run'[r].pc = "save") =>
                \A d \in Dest \ {run[r].dest} : SeenLinks(seen', d) = SeenLinks(seen, d)
          /\ FilterReturns(r) =>
                run'[r].jobs =
                    NewJobs(SeenLinks(OnlyChannel(seen, run[r].dest), run[r].dest),
                            run[r].jobs) ]_vars

\* Both channels have seen sets, different ones, and a filter for one of
\* them has just let through a link the other has seen.
C6_Witness ==
    \E r \in Runs :
        /\ run[r].only_new /\ run[r].pc = "header"
        /\ \E d \in Dest \ {run[r].dest} :
              /\ run[r].jobs[1].link \in SeenLinks(seen, d)
              /\ SeenLinks(seen, run[r].dest) # {}

\* ---- C7 ----------------------------------------------------------------
\* C7: atomic durability.  seen.json always holds a complete snapshot: what
\* was there at the start, or the complete dump of the store as it was when
\* the last completed save moved it into place; never part of a dump.
C7_AtomicDurability ==
    /\ file.kind # "partial"
    /\ file = IF saved.valid THEN Dumps(saved.store) ELSE disk0

\* The process was killed inside a save (or the save failed) after an
\* earlier save had completed: the dump in seen.tmp is cut short or was
\* never moved, seen.json holds the earlier snapshot.
C7_Witness ==
    /\ phase = "init"
    /\ saved.valid
    /\ tmp.kind \in {"partial", "stale"}

\* ---- C8 ----------------------------------------------------------------
\* Two stores record the same channels and, for each, the same links.
SameStore(a, b) ==
    /\ DOMAIN a.ch.m = DOMAIN b.ch.m
    /\ \A d \in Dest : SeenLinks(a, d) = SeenLinks(b, d)

\* C8: persistence round-trip.  What a fresh process loads from the file a
\* completed save left is the same store as the one that was saved.
C8_RoundTrip ==
    saved.valid => SameStore(LoadSeen(EmptyStore, file), saved.store)

\* A fresh process is about to load a file a save completed, with two or
\* more links for a channel in it.
C8_Witness ==
    /\ phase = "init"
    /\ saved.valid
    /\ \E d \in Dest : Cardinality(SeenLinks(LoadSeen(seen, file), d)) >= 2

\* ---- C9 ----------------------------------------------------------------
\* Whether a file holds the expected shape: a mapping under "channels"
\* whose entries each hold a list of links.
WellShaped(f) ==
    /\ f.kind = "json"
    /\ f.val.kind = "obj" /\ f.val.hasCh /\ f.val.ch.kind = "obj"
    /\ \A k \in DOMAIN f.val.ch.m :
          f.val.ch.m[k].kind = "obj" /\ f.val.ch.m[k].hasLinks /\ f.val.ch.m[k].iter

\* C9: a missing, empty, unparsable or ill-shaped file loads as an empty
\* store: after _load_seen no channel has a seen link, and a first
\* _filter_new for any channel returns all its jobs without raising.
C9_CorruptLoadsEmpty ==
    [][ (phase = "init" /\ phase' = "running" /\ ~WellShaped(file)) =>
            \A d \in Dest :
                /\ ~LookupRaises(seen', d)
                /\ SeenLinks(seen', d) = {}
                /\ \A js \in page : NewJobs(SeenLinks(seen', d), js) = js ]_vars

\* ---- C10 ---------------------------------------------------------------
\* C10: commit follows delivery.  A run past _add_seen has sent every one of
\* its jobs and committed exactly their links; so every link in a channel's
\* seen set, in memory or in seen.json, was on disk at the start or has been
\* sent to that channel.
C10_CommitAfterDelivery ==
    /\ \A r \in Runs :
          Committed(r) =>
              /\ run[r].sent = Len(run[r].jobs)
              /\ run[r].new_links = LinksOf(run[r].jobs)
    /\ \A d \in Dest :
          /\ SeenLinks(seen, d) \subseteq DiskLinks(d) \cup delivered[d]
          /\ SeenLinks(LoadSeen(EmptyStore, file), d) \subseteq DiskLinks(d) \cup delivered[d]

\* A send raised after an earlier job of the run had been delivered: that
\* job's link is not in the seen set.
C10_Witness ==
    \E r \in Runs :
        /\ run[r].pc = "done" /\ run[r].outcome = "raised"
        /\ delivered[run[r].dest] \ (SeenLinks(seen, run[r].dest) \cup DiskLinks(run[r].dest)) # {}

\* ---- C11 ---------------------------------------------------------------
\* The three sources' states, and what each extractor gives on its own for
\* the limit of the recorded call (nothing when it raises).
Sources == <<web.fn, web.tnp, web.off>>
Alone ==
    << FetchJobs(web.fn, call.limit), FetchTnpOfficerJobs(web.tnp, call.limit),
       FetchOffCampusJobs(web.off, call.limit) >>
Contribution(i) == IF Alone[i].raised THEN <<>> ELSE Alone[i].jobs

\* C11: aggregator failure isolation.  When fetch_combined_jobs is called
\* while one source's fetch fails and the other two succeed, it raises
\* nothing and returns exactly the records of the two that succeed.
C11_FailureIsolation ==
    ( /\ call.fn = "fetch_combined_jobs"
      /\ Cardinality({i \in 1..3 : ~Sources[i].ok}) = 1 )
    => /\ ~call.res.raised
       /\ call.res.jobs = Contribution(1) \o Contribution(2) \o Contribution(3)

\* ---- C12 ---------------------------------------------------------------
\* C12: aggregator ordering.  For every per-source limit L, when the three
\* sources answer, fetch_combined_jobs returns what fetch_jobs,
\* fetch_tnpofficer_jobs and fetch_offcampus_jobs return for L, one after
\* the other in that order, and each of the three parts has at most L records.
C12_AggregatorOrdering ==
    ( /\ call.fn = "fetch_combined_jobs"
      /\ \A i \in 1..3 : ~Alone[i].raised )
    => /\ ~call.res.raised
       /\ call.res.jobs = Alone[1].jobs \o Alone[2].jobs \o Alone[3].jobs
       /\ \A i \in 1..3 : Len(Alone[i].jobs) <= call.limit.n

\* ---- C13 ---------------------------------------------------------------
\* What the called extractor returns on the same page with no cap.
Uncapped ==
    CASE call.fn = "fetch_jobs" -> FetchJobs(web.fn, NoneLimit)
      [] call.fn = "fetch_tnpofficer_jobs" -> FetchTnpOfficerJobs(web.tnp, NoneLimit)
      [] call.fn = "fetch_offcampus_jobs" -> FetchOffCampusJobs(web.off, NoneLimit)
      [] OTHER -> RaisedError

ExtractorCalled ==
    call.fn \in {"fetch_jobs", "fetch_tnpofficer_jobs", "fetch_offcampus_jobs"}

\* C13: the limit is a prefix cap.  An extractor called with limit N (0
\* included) returns at most N records, and they are the first N of what it
\* returns on the same page with no cap.
C13_LimitIsPrefixCap ==
    (ExtractorCalled /\ call.limit.given /\ ~call.res.raised)
    => /\ Len(call.res.jobs) <= call.limit.n
       /\ call.res.jobs = Take(Uncapped.jobs, call.limit.n)

\* ---- C14 ---------------------------------------------------------------
\* The table find_target_table picks on the page of the recorded call.
Target == web.fn.doc.tables[FindTargetTable(web.fn.doc.tables)]

\* fetch_jobs was called on a page with a table whose headers match at least
\* four of the six labels.
OnQualifyingTable ==
    /\ call.fn = "fetch_jobs" /\ web.fn.ok
    /\ FindTargetTable(web.fn.doc.tables) # 0

\* Whether some data row of the table gives a record: four cells or more, a
\* title in the column headed "job role" and a link.
GivesRecord(table) ==
    /\ table.trs # <<>>
    /\ \E i \in 2..Len(table.trs) :
          LET headers == TextsOf(Head(table.trs))
              cells == table.trs[i]
          IN  /\ Len(cells) >= 4
              /\ RowTitle(headers, cells) # ""
              /\ RowLink(headers, cells) # ""

Min(a, b) == IF a < b THEN a ELSE b

\* C20: every Job an extractor returns has a title and a link, neither
\* empty; rows and items lacking either are passed over without using up the
\* limit: under a cap of N >= 1 the call returns N records whenever the page
\* has that many to give.
C20_TitleAndLink ==
    (ExtractorCalled /\ ~call.res.raised)
    => /\ \A i \in 1..Len(call.res.jobs) :
             call.res.jobs[i].title # "" /\ call.res.jobs[i].link # ""
       /\ (call.limit.given /\ call.limit.n >= 1)
             => Len(call.res.jobs) = Min(call.limit.n, Len(Uncapped.jobs))

\* fetch_jobs under a cap of 1 returned a record from a table whose first
\* data row lacks a link: the row passed over did not use up the cap.
C20_Witness ==
    /\ call.fn = "fetch_jobs" /\ call.limit = IntLimit(1)
    /\ Len(call.res.jobs) = 1 /\ ~call.res.fallback
    /\ FindTargetTable(web.fn.doc.tables) # 0
    /\ Len(Target.trs) >= 2
    /\ RowTitle(TextsOf(Head(Target.trs)), Target.trs[2]) # ""
    /\ RowLink(TextsOf(Head(Target.trs)), Target.trs[2]) = ""

\* ------------------------------------------------------------ C18 and C19
\* What Discord accepts in one message: ten embeds.
MaxEmbeds == 10

\* The run's new-jobs sequence: what the fetch returned, less (when only_new
\* was asked for) the jobs whose link the channel had seen when the run began.
NewSequence(rec) ==
    LET Unseen(j) == j.link \notin SeenLinks(rec.seen0, rec.dest)
    IN  IF rec.only_new THEN SelectSeq(rec.fetched, Unseen) ELSE rec.fetched

\* The job records of a list of messages, in the order they were sent.
Records(out) == Flatten([i \in 1..Len(out) |-> out[i].embeds])

\* The run in slot r has sent its header (it is sending embeds, saving, or
\* has returned having delivered).
Delivering(r) ==
    \/ run[r].pc \in {"sending", "save", "save_replace"}
    \/ run[r].pc = "done" /\ run[r].outcome = "delivered"

\* C18: in every run that delivers, the first message is the header and the
\* job records sent after it are, in order and each once, the leading part of
\* the run's new-jobs sequence, all of it when the run returns; and no
\* message carries more records than the platform allows.
C18_OrderedDelivery ==
    \A r \in slots :
        /\ \A i \in 1..Len(run[r].out) : Len(run[r].out[i].embeds) <= MaxEmbeds
        /\ Delivering(r) =>
             /\ run[r].out # <<>>
             /\ Head(run[r].out) = Text("header")
             /\ \A i \in 2..Len(run[r].out) : run[r].out[i].kind = "embed"
             /\ Len(Records(run[r].out)) <= Len(NewSequence(run[r]))
             /\ Records(run[r].out) =
                  SubSeq(NewSequence(run[r]), 1, Len(Records(run[r].out)))
             /\ (run[r].pc # "sending") =>
                  Records(run[r].out) = NewSequence(run[r])

\* A run has returned having delivered two of the three jobs it fetched, in
\* page order; the third one's link the channel had seen.
C18_Witness ==
    \E r \in slots :
        /\ run[r].pc = "done" /\ run[r].outcome = "delivered"
        /\ run[r].only_new
        /\ Len(run[r].fetched) = 3
        /\ Len(Records(run[r].out)) = 2
        /\ Records(run[r].out)[1] # Records(run[r].out)[2]

\* The run in slot r has returned (it did not raise).
Completed(r) == run[r].pc = "done" /\ run[r].outcome # "raised"

\* C19: a run that returns ends in exactly one of three ways: "no jobs
\* found" exactly when the fetch returned nothing; "no new jobs" exactly when
\* it returned something, only_new was asked for and the channel had seen
\* every link; delivered, with at least one job sent, otherwise.  In the first
\* two the one message sent is the notice and the store is as it was when the
\* run began.
C19_ThreeWayOutcome ==
    \A r \in slots :
        Completed(r) =>
            LET rec == run[r]
                allSeen == \A i \in 1..Len(rec.fetched) :
                              rec.fetched[i].link \in SeenLinks(rec.seen0, rec.dest)
            IN  /\ rec.outcome \in {"nojobs", "nonew", "delivered"}
                /\ rec.outcome = "nojobs" <=> rec.fetched = <<>>
                /\ rec.outcome = "nonew" <=>
                     (rec.fetched # <<>> /\ rec.only_new /\ allSeen)
                /\ rec.outcome = "delivered" =>
                     /\ rec.sent >= 1
                     /\ Len(Records(rec.out)) = rec.sent
                /\ rec.outcome = "nojobs" =>
                     rec.out = <<Text("no jobs found")>> /\ seen = rec.seen0
                /\ rec.outcome = "nonew" =>
                     rec.out = <<Text("no new jobs")>> /\ seen = rec.seen0

\* A run asked for new jobs only, fetched two, found both links in the
\* channel's entry and returned after the notice.
C19_Witness ==
    \E r \in slots :
        /\ Completed(r) /\ run[r].outcome = "nonew"
        /\ Len(run[r].fetched) = 2
        /\ run[r].out = <<Text("no new jobs")>>
        /\ seen # EmptyStore

\* -------------------------------------------------------------- C15 - C17
\* The jobs of the scheduler that post to channel d on a channel's schedule.
ChannelEntries(reg, d) == {j \in reg : j.id.name = "refresh" /\ j.id.chan = d}

\* C15: the scheduler holds at most one per-channel job for each channel;
\* once a call has been accepted for a channel, that one job is the job of
\* the last accepted call; and a per-channel job that fires is the job of the
\* last accepted call for its channel, with that call's time.
C15_OneEntryPerDestination ==
    \A d \in Dest :
        /\ Cardinality(ChannelEntries(registry, d)) <= 1
        /\ ev.last[d].fields # <<>> => ChannelEntries(registry, d) = {ev.last[d]}
        /\ (ev.op = "tick" /\ ev.id.name = "refresh" /\ ev.id.chan = d) =>
             /\ ev.last[d].fields # <<>>
             /\ ev.time = ev.last[d].fields
             /\ ev.tz = ev.last[d].tz

\* Channel 1 was scheduled at one time and then at another; its job has
\* fired, found the channel and started a run, and it is the 18:00 job.
C15_Witness ==
    /\ ev.op = "tick" /\ ev.found
    /\ ev.id.name = "refresh" /\ ev.id.chan = 1
    /\ ev.replaced = 1
    /\ ev.time = <<Tok(TRUE, 0), Tok(TRUE, 18), Star, Star, Star>>
    /\ run[1].pc # "idle" /\ run[1].dest = 1

\* "HH:MM" with HH in 0..23 and MM in 0..59, and a timezone pytz knows (or
\* none given).
WellFormedCall(time, tz) ==
    /\ Len(time) = 2
    /\ time[1].num /\ time[1].val \in 0..23
    /\ time[2].num /\ time[2].val \in 0..59
    /\ tz \in {"", "Asia/Kolkata", "UTC"}

\* Five cron fields, each "*" or a number of its range.
WellFormedCron(fields) ==
    /\ Len(fields) = 5
    /\ fields[1] = Star \/ (fields[1].num /\ fields[1].val \in 0..59)
    /\ fields[2] = Star \/ (fields[2].num /\ fields[2].val \in 0..23)
    /\ fields[3] = Star \/ (fields[3].num /\ fields[3].val \in 1..31)
    /\ fields[4] = Star \/ (fields[4].num /\ fields[4].val \in 1..12)
    /\ fields[5] = Star \/ (fields[5].num /\ fields[5].val \in 0..6)

\* C16: a schedule_refresh_command call with a malformed time or timezone
\* fails, is logged and leaves the scheduler's jobs as they were; setup_hook
\* with a malformed REFRESH_CRON logs it and adds no job; and no job in the
\* scheduler ever has a malformed trigger.
C16_InvalidNeverRegistered ==
    [][ /\ (ev' # ev /\ ev'.op = "schedule" /\ ~WellFormedCall(ev'.time, ev'.tz)) =>
             /\ ~ev'.ok /\ ev'.logged
             /\ registry' = registry
        /\ (ev' # ev /\ ev'.op = "setup" /\ env.cron.set /\ env.channel # 0
                /\ ~WellFormedCron(ev'.time)) =>
             /\ ~ev'.ok /\ ev'.logged
             /\ registry' = {}
        /\ \A j \in registry' :
             WellFormedCron(j.fields) /\ j.tz \in {"Asia/Kolkata", "UTC"}
      ]_vars

\* Channel 1 has a job, and a call in it with a malformed time has just
\* failed.
C16_Witness ==
    /\ ev.op = "schedule" /\ ~ev.ok
    /\ ev.id.chan = 1
    /\ ~WellFormedCall(ev.time, ev.tz)
    /\ ChannelEntries(registry, 1) # {}

\* C17: when a job fires and its lookup of the channel fails, the failure is
\* logged and nothing else happens: no run starts, nothing is sent, the store
\* and the scheduler's jobs stay as they are.
C17_FailedLookupLogged ==
    [][ (ev' # ev /\ ev'.op = "tick" /\ ~ev'.found) =>
            /\ ev'.logged
            /\ UNCHANGED <<run, seen, file, delivered, registry>>
      ]_vars

\* -------------------------------------------------------------------- C21
\* C21: in one run no two job records handed to destination.send have the
\* same link.
C21_NoDuplicateInRun ==
    \A r \in slots :
        \A i, j \in 1..Len(Records(run[r].out)) :
            i # j => Records(run[r].out)[i].link # Records(run[r].out)[j].link

\* -------------------------------------------------------------------- C22
\* No run is under way: every slot is free or holds a run that has returned
\* or raised.
AllFinished == \A r \in Runs : run[r].pc \in {"idle", "done"}

\* C22: whatever is put in place of seen.json is the dump of the whole store
\* as it is in memory at that moment; and once every run has finished with
\* no save of the process having failed, the file records the channels and
\* links that the store in memory does.
C22_SnapshotTracksMemory ==
    [][ /\ file' # file => file' = Dumps(seen) /\ seen' = seen
        /\ (phase' = "running" /\ AllFinished' /\ ~saved'.failed) =>
             SameStore(LoadSeen(EmptyStore, file'), seen')
      ]_vars

\* Two runs, one for each channel, have committed and saved, the second
\* after the first; both have returned, and the file holds both channels'
\* links.
C22_Witness ==
    /\ phase = "running" /\ AllFinished /\ ~saved.failed
    /\ run[1].pc = "done" /\ run[2].pc = "done"
    /\ run[1].outcome = "delivered" /\ run[2].outcome = "delivered"
    /\ run[1].dest # run[2].dest
    /\ \A d \in Dest : SeenLinks(LoadSeen(EmptyStore, file), d) # {}

\* -------------------------------------------------------------------- C23
\* C23: the lock is held only by a run that is inside _save_seen, between
\* its two file calls, and never by one that is at a send, at the fetch or
\* about to ask for the lock; every run that has begun returns or raises;
\* and a lock that is held is given back.
C23_NoDeadlock ==
    /\ [](\A r \in Runs : lock = r => run[r].pc = "save_replace")
    /\ \A r \in Runs :
          (run[r].pc # "idle") ~> (run[r].pc \in {"idle", "done"})
    /\ (lock # 0) ~> (lock = 0)

\* One run holds the lock inside _save_seen while the other has committed
\* and asks for it.
C23_Witness ==
    /\ lock = 1 /\ run[1].pc = "save_replace"
    /\ run[2].pc = "save"

====
